---- MODULE Spec2Model ----
(***************************************************************************)
(* A model of jiralert's notify package (pkg/notify/notify.go): the        *)
(* Receiver that reconciles Alertmanager notifications against Jira.       *)
(*                                                                         *)
(* Strings are sequences of tokens, so that concatenation, truncation and  *)
(* the removal of spaces are computed as the code computes them.  A token  *)
(* is a label name, a literal piece of a format string, or one character   *)
(* of a label value; the space is the token " ".                           *)
(***************************************************************************)
EXTENDS Integers, Sequences, FiniteSets, TLC

VARIABLES
    conf,           \* r.conf: the receiver's configuration, fixed at construction
    hashJiraLabel,  \* the flag main passes to every Notify
    data,           \* the alert group as Alertmanager currently sees it
    jira,           \* the issues the Jira server holds, by key 1..Len(jira)
    now,            \* r.timeNow(), also the server's clock
    last,           \* what the most recent Notify did: its calls and its result
    inflight        \* the Notify calls running side by side: where each is, what it holds

vars == <<conf, hashJiraLabel, data, jira, now, last, inflight>>

----------------------------------------------------------------------------
(* Bounds *)

MaxTime == 3
MaxIssues == 2
MaxAlerts == 3

(* search's MaxResults *)
MaxResults == 2

----------------------------------------------------------------------------
(* Sequences and strings *)

Range(s) == {s[i] : i \in 1..Len(s)}

RECURSIVE Concat(_)
Concat(ss) == IF ss = <<>> THEN <<>> ELSE Head(ss) \o Concat(Tail(ss))

IsSpace(c) == c = " "

(* strings.Replace(s, " ", "", -1) *)
StripSpaces(s) == SelectSeq(s, LAMBDA c : ~IsSpace(c))

(* fmt's %q for the values of the model, none of which needs an escape *)
Quote(v) == <<"\"">> \o v \o <<"\"">>

(* buf.Truncate(buf.Len() - 1) *)
Truncate(s) == SubSeq(s, 1, Len(s) - 1)

Digits == <<"0", "1", "2", "3", "4", "5", "6", "7", "8", "9">>
Itoa(n) == IF n < 10 THEN <<Digits[n + 1]>> ELSE <<"many">>

----------------------------------------------------------------------------
(* pkg/alertmanager: KV, Alert, Data *)

AlertFiring == "firing"
AlertResolved == "resolved"

(* label and annotation names in sort order *)
NameOrder == <<"alertname", "sev", "team">>

(* KV.SortedPairs: the pairs of kv by name *)
SortedPairs(kv) ==
    LET names == SelectSeq(NameOrder, LAMBDA n : n \in DOMAIN kv)
    IN  [i \in 1..Len(names) |-> [Name |-> names[i], Value |-> kv[names[i]]]]

(* Alerts.Firing: the firing alerts of a list *)
FiringOf(alerts) == SelectSeq(alerts, LAMBDA a : a.Status = AlertFiring)

EmptyKV == [n \in {} |-> <<>>]

Restrict(kv, names) == [n \in (DOMAIN kv) \cap names |-> kv[n]]

(* The pairs every alert of the list carries: what Alertmanager sends as   *)
(* the common labels and annotations of a group.                           *)
CommonOf(kvs) ==
    IF kvs = <<>> THEN EmptyKV
    ELSE LET first == kvs[1]
             keep == {n \in DOMAIN first :
                        \A i \in 1..Len(kvs) : n \in DOMAIN kvs[i] /\ kvs[i][n] = first[n]}
         IN  [n \in keep |-> first[n]]

StatusOf(alerts) == IF FiringOf(alerts) # <<>> THEN AlertFiring ELSE AlertResolved

(* The notification Alertmanager sends for a group of alerts grouped by    *)
(* the label names groupBy.                                                *)
GroupData(alerts, groupBy) ==
    LET common == CommonOf([i \in 1..Len(alerts) |-> alerts[i].Labels])
    IN  [ GroupLabels       |-> Restrict(common, groupBy),
          Status            |-> StatusOf(alerts),
          CommonLabels      |-> common,
          CommonAnnotations |-> CommonOf([i \in 1..Len(alerts) |-> alerts[i].Annotations]),
          Alerts            |-> alerts ]

----------------------------------------------------------------------------
(* pkg/template: Execute.  A template text is "" (renders nothing), a text *)
(* with an action in it, or a plain text that renders as itself.           *)

TmplBad == "{{ bad"
TmplFiring == "{{ len .Alerts.Firing }} firing"
TmplName == "{{ .GroupLabels.alertname }} alert"
TmplRule == "{{ .CommonLabels.alertname }}"

Execute(text, d) ==
    CASE text = TmplBad    -> [err |-> TRUE, val |-> <<>>]
      [] text = ""         -> [err |-> FALSE, val |-> <<>>]
      [] text = TmplFiring -> [err |-> FALSE,
                               val |-> Itoa(Len(FiringOf(d.Alerts))) \o <<" ", "firing">>]
      [] text = TmplName   -> [err |-> FALSE,
                               val |-> (IF "alertname" \in DOMAIN d.GroupLabels
                                        THEN d.GroupLabels["alertname"]
                                        ELSE <<"<no", " ", "value>">>) \o <<" ", "alert">>]
      [] text = TmplRule   -> [err |-> FALSE,
                               val |-> IF "alertname" \in DOMAIN d.CommonLabels
                                       THEN d.CommonLabels["alertname"]
                                       ELSE <<"<no", " ", "value>">>]
      [] OTHER             -> [err |-> FALSE, val |-> <<text>>]

----------------------------------------------------------------------------
(* The Jira server behind jiraIssueService.  An issue's key is its place   *)
(* in jira.  A resolution of "" is no resolution, a resolutiondate of 0 is *)
(* the zero time.Time (unresolved).                                        *)

CategoryNew == "new"
CategoryDone == "done"

(* the status category of a status *)
StatusCategory(status) == IF status = "Open" THEN CategoryNew ELSE CategoryDone

(* The project's workflow: the transitions an issue offers by its status.  *)
(* Resolved and Closed are both of the category done; a closed issue can   *)
(* still be moved to Resolved.                                             *)
Workflow ==
    << [ID |-> "11", Name |-> "Done",     From |-> "Open",     To |-> "Resolved", Resolution |-> "Done"],
       [ID |-> "21", Name |-> "Won't Do", From |-> "Open",     To |-> "Closed",   Resolution |-> "Won't Do"],
       [ID |-> "31", Name |-> "Reopen",   From |-> "Resolved", To |-> "Open",     Resolution |-> ""],
       [ID |-> "41", Name |-> "Reopen",   From |-> "Closed",   To |-> "Open",     Resolution |-> ""],
       [ID |-> "51", Name |-> "Done",     From |-> "Closed",   To |-> "Resolved", Resolution |-> "Done"] >>

TransitionByID(id) == CHOOSE t \in Range(Workflow) : t.ID = id

(* Issue.GetTransitions *)
JiraGetTransitions(issues, key) ==
    SelectSeq(Workflow, LAMBDA t : t.From = issues[key].Status)

(* Issue.DoTransition *)
JiraDoTransition(issues, key, id, t) ==
    [issues EXCEPT ![key].Status = TransitionByID(id).To,
                   ![key].Resolution = TransitionByID(id).Resolution,
                   ![key].Resolutiondate =
                        IF StatusCategory(TransitionByID(id).To) = CategoryDone THEN t ELSE 0]

(* Issue.Create: the server files the issue in the workflow's first status *)
JiraCreate(issues, fields) ==
    Append(issues, [ Project        |-> fields.Project,
                     Labels         |-> fields.Labels,
                     Summary        |-> fields.Summary,
                     Description    |-> fields.Description,
                     Status         |-> "Open",
                     Resolution     |-> "",
                     Resolutiondate |-> 0 ])

(* Issue.UpdateWithOptions: go-jira leaves an empty field out of the       *)
(* request (omitempty), and the server changes the fields it is sent.      *)
JiraUpdate(issues, key, field, value) ==
    IF value = <<>> THEN issues
    ELSE IF field = "summary" THEN [issues EXCEPT ![key].Summary = value]
    ELSE [issues EXCEPT ![key].Description = value]

(* order by resolutiondate desc: an empty date sorts first *)
DateRank(issue) == IF issue.Resolutiondate = 0 THEN MaxTime + 1 ELSE issue.Resolutiondate

(* The keys of set keys in the order of the query; tie says how the server *)
(* orders issues of equal date.                                            *)
RECURSIVE OrderByResolutiondateDesc(_, _, _)
OrderByResolutiondateDesc(issues, keys, tie) ==
    IF keys = {} THEN <<>>
    ELSE LET top == {k \in keys : \A j \in keys : DateRank(issues[k]) >= DateRank(issues[j])}
             k == CHOOSE x \in top : \A y \in top : IF tie = "asc" THEN x <= y ELSE x >= y
         IN  <<k>> \o OrderByResolutiondateDesc(issues, keys \ {k}, tie)

(* What the server returns of an issue when asked for the fields `fields`  *)
IssueView(issues, key, fields) ==
    [ Key            |-> key,
      Status         |-> IF "status" \in fields THEN issues[key].Status ELSE "",
      Summary        |-> IF "summary" \in fields THEN issues[key].Summary ELSE <<>>,
      Description    |-> IF "description" \in fields THEN issues[key].Description ELSE <<>>,
      StatusCategory |-> IF "status" \in fields THEN StatusCategory(issues[key].Status) ELSE "",
      Resolution     |-> IF "resolution" \in fields THEN issues[key].Resolution ELSE "",
      Resolutiondate |-> IF "resolutiondate" \in fields THEN issues[key].Resolutiondate ELSE 0 ]

(* Issue.Search for project="<project>" and labels="<label>" order by      *)
(* resolutiondate desc                                                     *)
JiraSearch(issues, project, label, fields, maxResults, tie) ==
    LET match == {k \in 1..Len(issues) :
                    issues[k].Project = project /\ label \in Range(issues[k].Labels)}
        order == OrderByResolutiondateDesc(issues, match, tie)
        n == IF Len(order) < maxResults THEN Len(order) ELSE maxResults
    IN  [i \in 1..n |-> IssueView(issues, order[i], fields)]

----------------------------------------------------------------------------
(* pkg/config: ReceiverConfig values *)

GroupByAlertGroup == "AlertGroup"
GroupByAlertRule == "AlertRule"
GroupByAlert == "Alert"

----------------------------------------------------------------------------
(* pkg/notify: grouping *)

(* a.Labels[ln] of a Go map: the zero value for a missing key *)
Get(kv, n) == IF n \in DOMAIN kv THEN kv[n] ELSE <<>>

(* toAlert: one notification per alert *)
toAlert(d) ==
    [i \in 1..Len(d.Alerts) |->
        [ GroupLabels       |-> d.GroupLabels,
          Status            |-> d.Alerts[i].Status,
          CommonLabels      |-> d.Alerts[i].Labels,
          CommonAnnotations |-> d.Alerts[i].Annotations,
          Alerts            |-> <<d.Alerts[i]>> ]]

(* the inner loops of toAlertRule: delete from common what alert a does    *)
(* not carry with the same value                                           *)
(* DeleteDisagreeing, were a name the alert lacks never kept *)
DeleteDisagreeingExact(common, kv) ==
    Restrict(common, {n \in DOMAIN common : n \in DOMAIN kv /\ kv[n] = common[n]})

DeleteDisagreeing(common, kv) ==
    Restrict(common, {n \in DOMAIN common : Get(kv, n) = common[n]})

RECURSIVE ShrinkLabels(_, _)
ShrinkLabels(common, rest) ==
    IF rest = <<>> THEN common
    ELSE ShrinkLabels(DeleteDisagreeing(common, Head(rest).Labels), Tail(rest))

RECURSIVE ShrinkAnnotations(_, _)
ShrinkAnnotations(common, rest) ==
    IF rest = <<>> THEN common
    ELSE ShrinkAnnotations(DeleteDisagreeing(common, Head(rest).Annotations), Tail(rest))

(* the places in d.Alerts of the alerts of rule name, in order *)
RuleMembers(d, name) ==
    SelectSeq([i \in 1..Len(d.Alerts) |-> i],
              LAMBDA i : "alertname" \in DOMAIN d.Alerts[i].Labels
                         /\ d.Alerts[i].Labels["alertname"] = name)

RuleNames(d) ==
    {d.Alerts[i].Labels["alertname"] :
        i \in {j \in 1..Len(d.Alerts) : "alertname" \in DOMAIN d.Alerts[j].Labels}}

(* RuleData, were the status that of the rule's first alert *)
RuleDataStatusOfFirst(d, name) ==
    LET members == RuleMembers(d, name)
        alerts == [i \in 1..Len(members) |-> d.Alerts[members[i]]]
        commonLabels == ShrinkLabels(alerts[1].Labels, Tail(alerts))
        commonAnnotations == ShrinkAnnotations(alerts[1].Annotations, Tail(alerts))
        first == [alerts[1] EXCEPT !.Labels = commonLabels,
                                   !.Annotations = commonAnnotations]
    IN  [ GroupLabels       |-> d.GroupLabels,
          Status            |-> alerts[1].Status,
          CommonLabels      |-> commonLabels,
          CommonAnnotations |-> commonAnnotations,
          Alerts            |-> <<first>> \o Tail(alerts) ]

(* The notification toAlertRule builds for rule name.  commonLabels and    *)
(* commonAnnotations are the maps of the rule's first alert themselves, so *)
(* the deletions show in that alert.                                       *)
RuleData(d, name) ==
    LET members == RuleMembers(d, name)
        alerts == [i \in 1..Len(members) |-> d.Alerts[members[i]]]
        commonLabels == ShrinkLabels(alerts[1].Labels, Tail(alerts))
        commonAnnotations == ShrinkAnnotations(alerts[1].Annotations, Tail(alerts))
        first == [alerts[1] EXCEPT !.Labels = commonLabels,
                                   !.Annotations = commonAnnotations]
    IN  [ GroupLabels       |-> d.GroupLabels,
          Status            |-> StatusOf(alerts),
          CommonLabels      |-> commonLabels,
          CommonAnnotations |-> commonAnnotations,
          Alerts            |-> <<first>> \o Tail(alerts) ]

(* d.Alerts once toAlertRule has returned *)
AlertsAfterToAlertRule(d) ==
    [i \in 1..Len(d.Alerts) |->
        IF "alertname" \in DOMAIN d.Alerts[i].Labels
           /\ RuleMembers(d, d.Alerts[i].Labels["alertname"])[1] = i
        THEN RuleData(d, d.Alerts[i].Labels["alertname"]).Alerts[1]
        ELSE d.Alerts[i]]

Orders(S) ==
    {p \in [1..Cardinality(S) -> S] : \A i, j \in 1..Cardinality(S) : p[i] = p[j] => i = j}

(* toAlertRule: one notification per rule, in the order in which range     *)
(* walks the map alertsData, which Go leaves open                          *)
toAlertRule(d) ==
    {[i \in 1..Len(p) |-> RuleData(d, p[i])] : p \in Orders(RuleNames(d))}

(* The slices Notify may loop over *)
Slices(d) ==
    CASE conf.GroupIssueBy \in {GroupByAlertGroup, ""} -> {<<d>>}
      [] conf.GroupIssueBy = GroupByAlertRule          -> toAlertRule(d)
      [] conf.GroupIssueBy = GroupByAlert              -> {toAlert(d)}
      [] OTHER                                         -> {<<>>}

----------------------------------------------------------------------------
(* pkg/notify: one run of notify.  A run's state st holds the server's     *)
(* issues as the run's calls have left them, the number n of client calls  *)
(* the Notify has issued, the run's environment env (the call that fails,  *)
(* failAt, with the response failResp; the server's order of equal dates,  *)
(* tie; the time t), what the run has done and seen, and, once it has      *)
(* returned, the return statement it left by (exit) and the pair it        *)
(* returned (retry, err; err = "" is nil).  A function of the code is an   *)
(* operator from the state it is called in to the state it returns in.     *)

NoResponse == [nil |-> TRUE, StatusCode |-> 0]
Response(code) == [nil |-> FALSE, StatusCode |-> code]

StartRun(issues, n, env, d) ==
    [ jira        |-> issues,
      n           |-> n,
      env         |-> env,
      calls       |-> <<>>,     \* the client calls issued, in order
      attempts    |-> <<>>,     \* the doTransition invocations: by whom, to which state
      firing      |-> Len(FiringOf(d.Alerts)),
      project     |-> <<>>,
      idLabel     |-> <<>>,
      labels      |-> <<>>,
      searched    |-> <<>>,     \* what search returned: <<>> or <<issue>>
      issue       |-> <<>>,     \* what findIssueToReuse returned
      summary     |-> <<>>,
      description |-> <<>>,
      rendered    |-> FALSE,    \* summary and description have been rendered
      failed      |-> <<>>,     \* the response of the call that failed, if one did
      exit        |-> "",
      retry       |-> FALSE,
      err         |-> "" ]

(* the next client call is the one that fails *)
Failing(st) == st.n + 1 = st.env.failAt

Call(st, op, key, field, value) ==
    [st EXCEPT !.n = @ + 1,
               !.calls = Append(@, [op |-> op, key |-> key, field |-> field, value |-> value])]

(* return retry, err at the return statement named exit *)
Return(st, exit, retry, err) ==
    [st EXCEPT !.exit = exit, !.retry = retry, !.err = err]

(* return what the call just made returned *)
ReturnCalled(st, exit) == [st EXCEPT !.exit = exit]

(* handleJiraErrResponse, were every 5xx status retried *)
handleJiraErrResponseAny5xx(resp) ==
    IF ~resp.nil /\ resp.StatusCode \div 100 # 2
    THEN [retry |-> resp.StatusCode \div 100 = 5,
          err |-> "JIRA request returned status"]
    ELSE [retry |-> FALSE, err |-> "JIRA request failed"]

(* handleJiraErrResponse, were only status 503 retried *)
handleJiraErrResponseOnly503(resp) ==
    IF ~resp.nil /\ resp.StatusCode \div 100 # 2
    THEN [retry |-> resp.StatusCode = 503,
          err |-> "JIRA request returned status"]
    ELSE [retry |-> FALSE, err |-> "JIRA request failed"]

(* handleJiraErrResponse *)
handleJiraErrResponse(resp) ==
    IF ~resp.nil /\ resp.StatusCode \div 100 # 2
    THEN [retry |-> resp.StatusCode = 500 \/ resp.StatusCode = 503,
          err |-> "JIRA request returned status"]
    ELSE [retry |-> FALSE, err |-> "JIRA request failed"]

(* the client call just issued fails: return handleJiraErrResponse's pair  *)
Fail(st) ==
    [st EXCEPT !.failed = <<st.env.failResp>>,
               !.retry = handleJiraErrResponse(st.env.failResp).retry,
               !.err = handleJiraErrResponse(st.env.failResp).err]

SearchFields == {"summary", "status", "resolution", "resolutiondate"}

(* search: the issue found is left in searched *)
(* searchResult, were the issue found not taken up *)
searchResultNone(st, issues) == st

searchResult(st, issues) ==
    IF Len(issues) = 0 THEN st ELSE [st EXCEPT !.searched = <<issues[1]>>]

search(st, project, issueLabel) ==
    IF Failing(st) THEN Fail(Call(st, "Search", 0, "labels", issueLabel))
    ELSE searchResult(Call(st, "Search", 0, "labels", issueLabel),
                      JiraSearch(st.jira, project, issueLabel, SearchFields, MaxResults,
                                 st.env.tie))

(* AddBefore, were it not-after in place of before *)
AddBeforeOrAt(resolutionTime, d, t) == resolutionTime + d <= t

(* resolutionTime.Add(d).Before(now) *)
AddBefore(resolutionTime, d, t) == resolutionTime + d < t

(* reuse, were a ReopenDuration of 0 not told apart *)
reuseZeroDuration(st) ==
    IF st.err # "" THEN st
    ELSE IF st.searched = <<>> THEN st
    ELSE IF /\ st.searched[1].Resolutiondate # 0
            /\ AddBefore(st.searched[1].Resolutiondate, conf.ReopenDuration, st.env.t)
         THEN st
    ELSE [st EXCEPT !.issue = st.searched]

(* findIssueToReuse, search done: the issue to reuse is left in issue *)
reuse(st) ==
    IF st.err # "" THEN st
    ELSE IF st.searched = <<>> THEN st
    ELSE IF /\ st.searched[1].Resolutiondate # 0
            /\ AddBefore(st.searched[1].Resolutiondate, conf.ReopenDuration, st.env.t)
            /\ conf.ReopenDuration # 0
         THEN st
    ELSE [st EXCEPT !.issue = st.searched]

(* findIssueToReuse *)
findIssueToReuse(st, project, issueGroupLabel) ==
    reuse(search(st, project, issueGroupLabel))

(* updateSummary *)
updateSummary(st, issueKey, summary) ==
    IF Failing(st) THEN Fail(Call(st, "UpdateWithOptions", issueKey, "summary", summary))
    ELSE [Call(st, "UpdateWithOptions", issueKey, "summary", summary)
            EXCEPT !.jira = JiraUpdate(@, issueKey, "summary", summary)]

(* updateDescription *)
updateDescription(st, issueKey, description) ==
    IF Failing(st)
    THEN Fail(Call(st, "UpdateWithOptions", issueKey, "description", description))
    ELSE [Call(st, "UpdateWithOptions", issueKey, "description", description)
            EXCEPT !.jira = JiraUpdate(@, issueKey, "description", description)]

(* the first transition of the list named transitionState, 0 if none *)
FirstNamed(transitions, transitionState) ==
    IF \E i \in 1..Len(transitions) : transitions[i].Name = transitionState
    THEN CHOOSE i \in 1..Len(transitions) :
            /\ transitions[i].Name = transitionState
            /\ \A j \in 1..(i - 1) : transitions[j].Name # transitionState
    ELSE 0

(* doTransition, the transitions listed: id is that of the first one named *)
(* transitionState, <<>> if there is none                                  *)
transit(st, issueKey, id) ==
    IF id = <<>>
    THEN [st EXCEPT !.err = "JIRA state does not exist or no transition possible"]
    ELSE IF Failing(st) THEN Fail(Call(st, "DoTransition", issueKey, "transition", id))
    ELSE [Call(st, "DoTransition", issueKey, "transition", id)
            EXCEPT !.jira = JiraDoTransition(@, issueKey, id[1], st.env.t)]

(* TransitionID, were the first transition listed taken whatever its name *)
TransitionIDFirst(transitions, transitionState) ==
    IF transitions = <<>> THEN <<>> ELSE <<transitions[1].ID>>

TransitionID(transitions, transitionState) ==
    IF FirstNamed(transitions, transitionState) = 0 THEN <<>>
    ELSE <<transitions[FirstNamed(transitions, transitionState)].ID>>

(* doTransition *)
doTransition(st, issueKey, transitionState) ==
    IF Failing(st) THEN Fail(Call(st, "GetTransitions", issueKey, "", <<>>))
    ELSE transit(Call(st, "GetTransitions", issueKey, "", <<>>), issueKey,
                 TransitionID(JiraGetTransitions(st.jira, issueKey), transitionState))

(* reopen *)
reopen(st, issueKey) ==
    doTransition([st EXCEPT !.attempts = Append(@, [by |-> "reopen", state |-> conf.ReopenState])],
                 issueKey, conf.ReopenState)

(* resolveIssue, were it to ask for the reopen state *)
resolveIssueToReopenState(st, issueKey) ==
    doTransition([st EXCEPT !.attempts =
                      Append(@, [by |-> "resolveIssue", state |-> conf.ReopenState])],
                 issueKey, conf.ReopenState)

(* resolveIssue *)
resolveIssue(st, issueKey) ==
    doTransition([st EXCEPT !.attempts =
                      Append(@, [by |-> "resolveIssue", state |-> conf.AutoResolve[1].State])],
                 issueKey, conf.AutoResolve[1].State)

(* create *)
create(st, fields) ==
    IF Failing(st) THEN Fail(Call(st, "Create", Len(st.jira) + 1, "summary", fields.Summary))
    ELSE [Call(st, "Create", Len(st.jira) + 1, "summary", fields.Summary)
            EXCEPT !.jira = JiraCreate(@, fields)]

(* fmt.Sprintf("%s=%q", name, value) *)
PairLabel(p) == <<p.Name, "=">> \o Quote(p.Value)

(* sha512 and %x: a digest without spaces that tells its inputs apart *)
HexDigest(s) == [i \in 1..Len(s) |-> IF IsSpace(s[i]) THEN "20" ELSE s[i]]

(* name=%q, for each pair in turn *)
KVStrings(pairs) == Concat([i \in 1..Len(pairs) |-> PairLabel(pairs[i]) \o <<",">>])

(* toGroupTicketLabel *)
toGroupTicketLabel(labels, hash) ==
    IF hash
    THEN <<"JIRALERT", "{">> \o HexDigest(KVStrings(SortedPairs(labels))) \o <<"}">>
    ELSE StripSpaces(Truncate(<<"ALERT", "{">> \o KVStrings(SortedPairs(labels))) \o <<"}">>)

(* toIssueIdentifierLabel *)
toIssueIdentifierLabel(d, hash) ==
    IF conf.IssueIdentifierLabel = ""
    THEN [err |-> FALSE, val |-> toGroupTicketLabel(d.GroupLabels, hash)]
    ELSE IF Execute(conf.IssueIdentifierLabel, d).err THEN [err |-> TRUE, val |-> <<>>]
    ELSE [err |-> FALSE, val |-> StripSpaces(Execute(conf.IssueIdentifierLabel, d).val)]

PairLabels(pairs) == [i \in 1..Len(pairs) |-> PairLabel(pairs[i])]

(* the labels notify starts the issue's labels with *)
CommonLabelList(d) ==
    IF conf.AddCommonLabels THEN PairLabels(SortedPairs(d.CommonLabels)) ELSE <<>>

(* the labels the create path appends for the group labels; range walks a  *)
(* Go map, here in the order of the names                                  *)
GroupLabelList(d) ==
    IF conf.AddGroupLabels THEN PairLabels(SortedPairs(d.GroupLabels)) ELSE <<>>

(* some template of the list fails to render *)
AnyBad(texts, d) == \E i \in 1..Len(texts) : Execute(texts[i], d).err

(* refreshSummary, were the summary left as it is *)
refreshSummaryNever(st, issue) == st

(* notify, an issue to reuse found: update summary if needed *)
refreshSummary(st, issue) ==
    IF issue.Summary # st.summary
    THEN updateSummary(st, issue.Key, st.summary)
    ELSE st

(* notify, an issue to reuse found: the description *)
refreshDescription(st, issue) ==
    IF st.err # "" THEN ReturnCalled(st, "updateSummary")
    ELSE IF issue.Description # st.description
    THEN updateDescription(st, issue.Key, st.description)
    ELSE st

(* reconcile, were every resolution taken for the won't-fix one *)
reconcileAnyResolution(st, d, issue) ==
    IF st.exit # "" THEN st
    ELSE IF st.err # "" THEN ReturnCalled(st, "updateDescription")
    ELSE IF Len(FiringOf(d.Alerts)) = 0
         THEN IF conf.AutoResolve # <<>>
              THEN ReturnCalled(resolveIssue(st, issue.Key), "resolveIssue")
              ELSE Return(st, "noFiring", FALSE, "")
    ELSE IF issue.StatusCategory # CategoryDone THEN Return(st, "unresolved", FALSE, "")
    ELSE IF conf.WontFixResolution # "" /\ issue.Resolution # ""
         THEN Return(st, "wontFix", FALSE, "")
    ELSE ReturnCalled(reopen(st, issue.Key), "reopen")

(* reconcile, were the won't-fix resolution not looked at *)
reconcileNoWontFix(st, d, issue) ==
    IF st.exit # "" THEN st
    ELSE IF st.err # "" THEN ReturnCalled(st, "updateDescription")
    ELSE IF Len(FiringOf(d.Alerts)) = 0
         THEN IF conf.AutoResolve # <<>>
              THEN ReturnCalled(resolveIssue(st, issue.Key), "resolveIssue")
              ELSE Return(st, "noFiring", FALSE, "")
    ELSE IF issue.StatusCategory # CategoryDone THEN Return(st, "unresolved", FALSE, "")
    ELSE ReturnCalled(reopen(st, issue.Key), "reopen")

(* notify, an issue to reuse found, summary and description seen to *)
reconcile(st, d, issue) ==
    IF st.exit # "" THEN st
    ELSE IF st.err # "" THEN ReturnCalled(st, "updateDescription")
    ELSE IF Len(FiringOf(d.Alerts)) = 0
         THEN IF conf.AutoResolve # <<>>
              THEN ReturnCalled(resolveIssue(st, issue.Key), "resolveIssue")
              ELSE Return(st, "noFiring", FALSE, "")
    ELSE IF issue.StatusCategory # CategoryDone THEN Return(st, "unresolved", FALSE, "")
    ELSE IF /\ conf.WontFixResolution # ""
            /\ issue.Resolution # ""
            /\ issue.Resolution = conf.WontFixResolution
         THEN Return(st, "wontFix", FALSE, "")
    ELSE ReturnCalled(reopen(st, issue.Key), "reopen")

(* notify, an issue to reuse found *)
notifyFound(st, d, issue) ==
    reconcile(refreshDescription(refreshSummary(st, issue), issue), d, issue)

(* the issue notify builds *)
NewIssue(st, d) ==
    [ Project     |-> st.project,
      Type        |-> Execute(conf.IssueType, d).val,
      Description |-> st.description,
      Summary     |-> st.summary,
      Labels      |-> st.labels \o GroupLabelList(d) ]

(* notifyCreate, were the firing alerts not counted *)
notifyCreateAlways(st, d) ==
    IF Execute(conf.IssueType, d).err
    THEN Return(st, "issueType", FALSE, "render issue type")
    ELSE IF conf.Priority # "" /\ Execute(conf.Priority, d).err
         THEN Return(st, "priority", FALSE, "render issue priority")
    ELSE IF AnyBad(conf.Components, d)
         THEN Return(st, "component", FALSE, "render issue component")
    ELSE IF AnyBad(conf.Fields, d) THEN Return(st, "fields", FALSE, "render issue field")
    ELSE ReturnCalled(create(st, NewIssue(st, d)), "create")

(* notify, no issue to reuse *)
notifyCreate(st, d) ==
    IF Len(FiringOf(d.Alerts)) = 0 THEN Return(st, "nothingToDo", FALSE, "")
    ELSE IF Execute(conf.IssueType, d).err
         THEN Return(st, "issueType", FALSE, "render issue type")
    ELSE IF conf.Priority # "" /\ Execute(conf.Priority, d).err
         THEN Return(st, "priority", FALSE, "render issue priority")
    ELSE IF AnyBad(conf.Components, d)
         THEN Return(st, "component", FALSE, "render issue component")
    ELSE IF AnyBad(conf.Fields, d) THEN Return(st, "fields", FALSE, "render issue field")
    ELSE ReturnCalled(create(st, NewIssue(st, d)), "create")

(* notify, findIssueToReuse called *)
notifySearched(st, d, issueSummary, issueDesc) ==
    IF st.err # "" THEN ReturnCalled(st, "findIssueToReuse")
    ELSE IF issueSummary.err
         THEN Return(st, "summary", FALSE, "generate summary from template")
    ELSE IF issueDesc.err
         THEN Return(st, "description", FALSE, "render issue description")
    ELSE IF st.issue # <<>>
         THEN notifyFound([st EXCEPT !.summary = issueSummary.val,
                                     !.description = issueDesc.val,
                                     !.rendered = TRUE], d, st.issue[1])
    ELSE notifyCreate([st EXCEPT !.summary = issueSummary.val,
                                 !.description = issueDesc.val,
                                 !.rendered = TRUE], d)

(* notifyLabelled, were the identifier label left out of the issue's labels *)
notifyLabelledNoIdLabel(st, d, project, idLabel) ==
    IF project.err THEN Return(st, "project", FALSE, "generate project from template")
    ELSE IF idLabel.err THEN Return(st, "idLabel", FALSE, "build IssueIdentifierLabel")
    ELSE notifySearched(
            findIssueToReuse([st EXCEPT !.project = project.val,
                                        !.idLabel = idLabel.val,
                                        !.labels = CommonLabelList(d)],
                             project.val, idLabel.val),
            d, Execute(conf.Summary, d), Execute(conf.Description, d))

(* notifyLabelled, were summary and description rendered before the search *)
notifyLabelledRenderFirst(st, d, project, idLabel) ==
    IF project.err THEN Return(st, "project", FALSE, "generate project from template")
    ELSE IF idLabel.err THEN Return(st, "idLabel", FALSE, "build IssueIdentifierLabel")
    ELSE IF Execute(conf.Summary, d).err
         THEN Return(st, "summary", FALSE, "generate summary from template")
    ELSE IF Execute(conf.Description, d).err
         THEN Return(st, "description", FALSE, "render issue description")
    ELSE notifySearched(
            findIssueToReuse([st EXCEPT !.project = project.val,
                                        !.idLabel = idLabel.val,
                                        !.labels = Append(CommonLabelList(d), idLabel.val)],
                             project.val, idLabel.val),
            d, Execute(conf.Summary, d), Execute(conf.Description, d))

(* notify, project and identifier label rendered *)
notifyLabelled(st, d, project, idLabel) ==
    IF project.err THEN Return(st, "project", FALSE, "generate project from template")
    ELSE IF idLabel.err THEN Return(st, "idLabel", FALSE, "build IssueIdentifierLabel")
    ELSE notifySearched(
            findIssueToReuse([st EXCEPT !.project = project.val,
                                        !.idLabel = idLabel.val,
                                        !.labels = Append(CommonLabelList(d), idLabel.val)],
                             project.val, idLabel.val),
            d, Execute(conf.Summary, d), Execute(conf.Description, d))

(* notify *)
notify(st, d, hash) ==
    notifyLabelled(st, d, Execute(conf.Project, d), toIssueIdentifierLabel(d, hash))

(* what a run of notify leaves in the record of the Notify *)
RunRecord(st) ==
    [ calls       |-> st.calls,
      attempts    |-> st.attempts,
      firing      |-> st.firing,
      project     |-> st.project,
      idLabel     |-> st.idLabel,
      searched    |-> st.searched,
      issue       |-> st.issue,
      summary     |-> st.summary,
      description |-> st.description,
      rendered    |-> st.rendered,
      failed      |-> st.failed,
      exit        |-> st.exit,
      retry       |-> st.retry,
      err         |-> st.err ]

(* the loop of Notify over slice from place i on: return at the first      *)
(* error; st is the state the run of slice[i] has returned in              *)
RECURSIVE NotifyLoop(_, _, _, _, _, _, _)
RECURSIVE NotifyNext(_, _, _, _, _, _)

NotifyLoop(slice, i, issues, n, env, hash, runs) ==
    IF i > Len(slice)
    THEN [jira |-> issues, runs |-> runs, retry |-> FALSE, err |-> ""]
    ELSE NotifyNext(slice, i, env, hash, runs,
                    notify(StartRun(issues, n, env, slice[i]), slice[i], hash))

(* NotifyNext, were the loop to go on after an error *)
NotifyNextGoesOn(slice, i, env, hash, runs, st) ==
    NotifyLoop(slice, i + 1, st.jira, st.n, env, hash, Append(runs, RunRecord(st)))

NotifyNext(slice, i, env, hash, runs, st) ==
    IF st.err # ""
    THEN [jira |-> st.jira, runs |-> Append(runs, RunRecord(st)),
          retry |-> st.retry, err |-> st.err]
    ELSE NotifyLoop(slice, i + 1, st.jira, st.n, env, hash, Append(runs, RunRecord(st)))

(* all the client calls of the runs, in order *)
CallsOf(runs) == Concat([i \in 1..Len(runs) |-> runs[i].calls])

(* the number of client calls of a Notify in which none fails *)
CallCount(slice, issues, env, hash) ==
    Len(CallsOf(NotifyLoop(slice, 1, issues, 0, env, hash, <<>>).runs))

----------------------------------------------------------------------------
(* The configurations, flags and alert groups of the model *)

BaseConf ==
    [ Project              |-> "OPS",
      Summary              |-> TmplFiring,
      Description          |-> "see runbook",
      IssueType            |-> "Bug",
      Priority             |-> "",
      Components           |-> <<>>,
      Fields               |-> <<>>,
      GroupIssueBy         |-> "",
      AddCommonLabels      |-> FALSE,
      AddGroupLabels       |-> FALSE,
      IssueIdentifierLabel |-> "",
      ReopenState          |-> "Reopen",
      AutoResolve          |-> <<>>,
      WontFixResolution    |-> "",
      ReopenDuration       |-> 0 ]

AutoResolves == {<<>>, <<[State |-> "Done"]>>}
WontFixResolutions == {"", "Won't Do"}
ReopenDurations == {0, 1, 2}

(* the configurations that differ in how an issue found is treated, and    *)
(* two that name a state the workflow has no transition for                *)
ReconcileConfs ==
    {[BaseConf EXCEPT !.AutoResolve = ar, !.WontFixResolution = wf, !.ReopenDuration = rd] :
        ar \in AutoResolves, wf \in WontFixResolutions, rd \in ReopenDurations}
    \cup {[BaseConf EXCEPT !.ReopenState = "To Do"],
          [BaseConf EXCEPT !.AutoResolve = <<[State |-> "Closed"]>>]}

Alert(status, labels, annotations) ==
    [Status |-> status, Labels |-> labels, Annotations |-> annotations]

NameA == [n \in {"alertname"} |-> <<"a">>]

(* one alert, grouped by alertname *)
PlainData == GroupData(<<Alert(AlertFiring, NameA, EmptyKV)>>, {"alertname"})

StatusCodes == {200, 404, 500, 502, 503}
Responses == {NoResponse} \cup {Response(c) : c \in StatusCodes}
Ties == {"asc", "desc"}

(* how a client call of a delivery repeated after a failure may fail *)
RetryResponses == {NoResponse, Response(503)}

(* last when no Notify is being answered.  Of a Notify, last also holds    *)
(* the slice it has looped over, the issues as it found them (start), the  *)
(* issues as the first delivery of the notification found them (origin),   *)
(* and whether a delivery before it has failed with retry after a          *)
(* notification of its slice had been dealt with (interrupted).            *)
NoNotify ==
    [ runs |-> <<>>, retry |-> FALSE, err |-> "", alerts |-> <<>>, redelivery |-> FALSE,
      slice |-> <<>>, start |-> <<>>, origin |-> <<>>, interrupted |-> FALSE ]

(* The handlers of the webhook that may run Notify side by side, and       *)
(* inflight when none does                                                 *)
Invocations == {1, 2}

NoInflight == [p \in Invocations |-> [pc |-> "idle", st |-> <<>>]]

InitReconcile ==
    /\ conf \in ReconcileConfs
    /\ hashJiraLabel = FALSE
    /\ data = PlainData
    /\ jira = <<>>
    /\ now = 1
    /\ last = NoNotify
    /\ inflight = NoInflight

(* the configurations that differ in the labels of an issue *)
LabelConfs ==
    {[BaseConf EXCEPT !.AddCommonLabels = cl, !.AddGroupLabels = gl,
                      !.IssueIdentifierLabel = il] :
        cl \in BOOLEAN, gl \in BOOLEAN, il \in {"", TmplName}}

(* one alert with a space in a label value *)
SpacedLabels == [n \in {"alertname", "sev"} |->
                    IF n = "alertname" THEN <<"a", " ", "b">> ELSE <<"x">>]

LabelData ==
    {GroupData(<<Alert(AlertFiring, SpacedLabels, EmptyKV)>>, groupBy) :
        groupBy \in {{"alertname"}, {"alertname", "sev"}}}

InitLabels ==
    /\ conf \in LabelConfs
    /\ hashJiraLabel \in (IF conf.IssueIdentifierLabel = "" THEN BOOLEAN ELSE {FALSE})
    /\ data \in LabelData
    /\ jira = <<>>
    /\ now = 1
    /\ last = NoNotify
    /\ inflight = NoInflight

(* the configurations in which a template fails to render, or the create   *)
(* path renders more                                                       *)
TemplateConfs ==
    { [BaseConf EXCEPT !.Project = TmplBad],
      [BaseConf EXCEPT !.IssueIdentifierLabel = TmplBad],
      [BaseConf EXCEPT !.Summary = TmplBad],
      [BaseConf EXCEPT !.Description = TmplBad],
      [BaseConf EXCEPT !.Description = ""],
      [BaseConf EXCEPT !.Summary = "alerts"],
      [BaseConf EXCEPT !.IssueType = TmplBad],
      [BaseConf EXCEPT !.Priority = TmplBad],
      [BaseConf EXCEPT !.Priority = "High", !.Components = <<"monitoring">>,
                       !.Fields = <<"customfield">>],
      [BaseConf EXCEPT !.Components = <<"monitoring", TmplBad>>],
      [BaseConf EXCEPT !.Fields = <<TmplBad>>] }

InitTemplates ==
    /\ conf \in TemplateConfs
    /\ hashJiraLabel = FALSE
    /\ data \in {PlainData, GroupData(<<Alert(AlertFiring, NameA, EmptyKV)>>, {})}
    /\ jira = <<>>
    /\ now = 1
    /\ last = NoNotify
    /\ inflight = NoInflight

(* the configurations that group by rule or by alert *)
GroupingConfs ==
    {[BaseConf EXCEPT !.GroupIssueBy = g, !.AutoResolve = ar,
                      !.IssueIdentifierLabel = TmplRule] :
        g \in {GroupByAlertRule, GroupByAlert}, ar \in AutoResolves}
    \cup {[BaseConf EXCEPT !.GroupIssueBy = GroupByAlertGroup]}

NameB == [n \in {"alertname"} |-> <<"b">>]

(* two alerts of two rules *)
TwoRules ==
    GroupData(<<Alert(AlertFiring, NameA, EmptyKV), Alert(AlertFiring, NameB, EmptyKV)>>, {})

InitGrouping ==
    /\ conf \in GroupingConfs
    /\ hashJiraLabel = FALSE
    /\ data = TwoRules
    /\ jira = <<>>
    /\ now = 1
    /\ last = NoNotify
    /\ inflight = NoInflight

(* the configurations for deliveries repeated after a failure *)
RetryConfs ==
    {[BaseConf EXCEPT !.GroupIssueBy = GroupByAlertRule, !.AutoResolve = ar,
                      !.IssueIdentifierLabel = TmplRule] : ar \in AutoResolves}
    \cup {[BaseConf EXCEPT !.GroupIssueBy = GroupByAlert, !.IssueIdentifierLabel = TmplRule]}

InitRetry ==
    /\ conf \in RetryConfs
    /\ hashJiraLabel = FALSE
    /\ data = TwoRules
    /\ jira = <<>>
    /\ now = 1
    /\ last = NoNotify
    /\ inflight = NoInflight

----------------------------------------------------------------------------
(* Receiver.Notify.  The webhook handler calls it for a notification and   *)
(* answers Alertmanager with its result (Respond); last holds what the     *)
(* call did until then.  Alertmanager may deliver the notification it got  *)
(* a success for once more, nothing having changed (Redeliver).            *)

(* two issues the query may return in either order *)
TiePossible ==
    \E j, k \in 1..Len(jira) :
        /\ j # k
        /\ DateRank(jira[j]) = DateRank(jira[k])
        /\ jira[j].Project = jira[k].Project
        /\ Range(jira[j].Labels) \cap Range(jira[k].Labels) # {}

(* Notify, having looped over slice, returns r; chain tells which         *)
(* delivery of the notification it is                                      *)
Returned(r, slice, chain) ==
    /\ Len(r.jira) <= MaxIssues
    /\ jira' = r.jira
    /\ last' = [ runs        |-> r.runs,
                 retry       |-> r.retry,
                 err         |-> r.err,
                 alerts      |-> IF conf.GroupIssueBy = GroupByAlertRule
                                 THEN AlertsAfterToAlertRule(data)
                                 ELSE data.Alerts,
                 redelivery  |-> chain.redelivery,
                 slice       |-> slice,
                 start       |-> jira,
                 origin      |-> chain.origin,
                 interrupted |-> chain.interrupted ]
    /\ UNCHANGED <<conf, hashJiraLabel, data, now, inflight>>

NoFailure(tie) == [failAt |-> 0, failResp |-> NoResponse, tie |-> tie, t |-> now]

(* a delivery in which a client call may fail with one of responses *)
Deliver(chain, responses) ==
    \E slice \in Slices(data), tie \in (IF TiePossible THEN Ties ELSE {"asc"}) :
        \E failAt \in 0..CallCount(slice, jira, NoFailure(tie), hashJiraLabel) :
            \E failResp \in (IF failAt = 0 THEN {NoResponse} ELSE responses) :
                Returned(NotifyLoop(slice, 1, jira, 0,
                                    [failAt |-> failAt, failResp |-> failResp,
                                     tie |-> tie, t |-> now],
                                    hashJiraLabel, <<>>),
                         slice, chain)

Idle == last = NoNotify

Notify ==
    /\ Idle
    /\ Deliver([redelivery |-> FALSE, origin |-> jira, interrupted |-> FALSE], Responses)

Redeliver ==
    /\ ~Idle
    /\ last.err = ""
    /\ Deliver([redelivery |-> TRUE, origin |-> jira, interrupted |-> FALSE], Responses)

(* Alertmanager delivers the notification again after a Notify that has    *)
(* returned retry                                                          *)
Retry ==
    /\ ~Idle
    /\ last.err # ""
    /\ last.retry
    /\ Deliver([redelivery |-> FALSE, origin |-> last.origin,
                interrupted |-> last.interrupted \/ Len(last.runs) >= 2],
               RetryResponses)

Respond ==
    /\ ~Idle
    /\ last' = NoNotify
    /\ UNCHANGED <<conf, hashJiraLabel, data, jira, now, inflight>>

(* The environment: time passes, alerts start and stop firing, people work *)
(* on the issues.                                                          *)

Tick ==
    /\ Idle
    /\ now < MaxTime
    /\ now' = now + 1
    /\ UNCHANGED <<conf, hashJiraLabel, data, jira, last, inflight>>

Flip(status) == IF status = AlertFiring THEN AlertResolved ELSE AlertFiring

AlertsChange ==
    /\ Idle
    /\ \E i \in 1..Len(data.Alerts) :
        LET alerts == [data.Alerts EXCEPT ![i].Status = Flip(@)]
        IN  data' = [data EXCEPT !.Alerts = alerts, !.Status = StatusOf(alerts)]
    /\ UNCHANGED <<conf, hashJiraLabel, jira, now, last, inflight>>

UserTransition ==
    /\ Idle
    /\ \E key \in 1..Len(jira) :
        \E i \in 1..Len(JiraGetTransitions(jira, key)) :
            jira' = JiraDoTransition(jira, key, JiraGetTransitions(jira, key)[i].ID, now)
    /\ UNCHANGED <<conf, hashJiraLabel, data, now, last, inflight>>

Next == Notify \/ Redeliver \/ Respond \/ Tick \/ AlertsChange \/ UserTransition

Init == InitReconcile \/ InitLabels \/ InitTemplates

Spec == Init /\ [][Next]_vars

(* Grouped notifications, the issues left to the receiver *)
NextGrouping == Notify \/ Redeliver \/ Respond \/ AlertsChange

SpecGrouping == InitGrouping /\ [][NextGrouping]_vars

(* Grouped notifications delivered again after a failure with retry *)
NextRetry == Notify \/ Retry \/ Respond \/ AlertsChange

SpecRetry == InitRetry /\ [][NextRetry]_vars

(* One alert group, its issues changed by the receiver alone *)
NextEngine == Notify \/ Redeliver \/ Respond \/ Tick \/ AlertsChange

SpecEngine == InitReconcile /\ [][NextEngine]_vars

(* Notify calls side by side.  The webhook handler runs in a goroutine of  *)
(* its own for every request and the receiver holds no lock: the runs of   *)
(* notify for one alert group interleave at their client calls.  A run is  *)
(* at pc: its search to come, then, an issue found, the summary, the       *)
(* description and the rest, or else the create.  In this specification    *)
(* the alert fires and an issue found is open, so that the rest issues no  *)
(* call.                                                                   *)

InitConcurrent ==
    /\ conf \in ReconcileConfs
    /\ hashJiraLabel \in BOOLEAN
    /\ data = PlainData
    /\ jira = <<>>
    /\ now = 1
    /\ last = NoNotify
    /\ inflight = NoInflight

(* how the next client call of a run goes: well, or failing with a response *)
Outcomes == {<<>>} \cup {<<resp>> : resp \in RetryResponses}

(* what run p holds, the server as it is now, its next call going as outcome *)
Local(p, outcome) ==
    [inflight[p].st EXCEPT
        !.jira = jira,
        !.env = [failAt   |-> IF outcome = <<>> THEN 0 ELSE inflight[p].st.n + 1,
                 failResp |-> IF outcome = <<>> THEN NoResponse ELSE outcome[1],
                 tie      |-> "asc",
                 t        |-> now]]

(* notify as far as findIssueToReuse *)
notifySearch(st, d, project, idLabel) ==
    IF project.err THEN Return(st, "project", FALSE, "generate project from template")
    ELSE IF idLabel.err THEN Return(st, "idLabel", FALSE, "build IssueIdentifierLabel")
    ELSE findIssueToReuse([st EXCEPT !.project = project.val,
                                     !.idLabel = idLabel.val,
                                     !.labels = Append(CommonLabelList(d), idLabel.val)],
                          project.val, idLabel.val)

(* notify from findIssueToReuse as far as summary and description *)
notifyRendered(st, issueSummary, issueDesc) ==
    IF st.exit # "" THEN st
    ELSE IF st.err # "" THEN ReturnCalled(st, "findIssueToReuse")
    ELSE IF issueSummary.err
         THEN Return(st, "summary", FALSE, "generate summary from template")
    ELSE IF issueDesc.err
         THEN Return(st, "description", FALSE, "render issue description")
    ELSE [st EXCEPT !.summary = issueSummary.val,
                    !.description = issueDesc.val,
                    !.rendered = TRUE]

(* run p has got to st and goes on at pc, unless it has returned *)
Step(p, st, pc) ==
    /\ Len(st.jira) <= MaxIssues
    /\ jira' = st.jira
    /\ inflight' = [inflight EXCEPT
                        ![p] = [pc |-> IF st.exit # "" \/ st.err # "" THEN "done" ELSE pc,
                                st |-> [st EXCEPT !.jira = <<>>]]]
    /\ UNCHANGED <<conf, hashJiraLabel, data, now, last>>

(* a handler calls Notify *)
StepBegin ==
    \E p \in Invocations :
        /\ inflight[p].pc = "idle"
        /\ inflight' = [inflight EXCEPT
                            ![p] = [pc |-> "search",
                                    st |-> StartRun(<<>>, 0, NoFailure("asc"), data)]]
        /\ UNCHANGED <<conf, hashJiraLabel, data, jira, now, last>>

StepSearch ==
    \E p \in Invocations, outcome \in Outcomes :
        /\ inflight[p].pc = "search"
        /\ LET st == notifyRendered(
                        notifySearch(Local(p, outcome), data, Execute(conf.Project, data),
                                     toIssueIdentifierLabel(data, hashJiraLabel)),
                        Execute(conf.Summary, data), Execute(conf.Description, data))
           IN  Step(p, st, IF st.issue # <<>> THEN "summary" ELSE "create")

StepUpdateSummary ==
    \E p \in Invocations, outcome \in Outcomes :
        /\ inflight[p].pc = "summary"
        /\ Step(p, refreshSummary(Local(p, outcome), inflight[p].st.issue[1]), "description")

StepUpdateDescription ==
    \E p \in Invocations, outcome \in Outcomes :
        /\ inflight[p].pc = "description"
        /\ Step(p, refreshDescription(Local(p, outcome), inflight[p].st.issue[1]),
                "reconcile")

StepReconcile ==
    \E p \in Invocations, outcome \in Outcomes :
        /\ inflight[p].pc = "reconcile"
        /\ Step(p, reconcile(Local(p, outcome), data, inflight[p].st.issue[1]), "done")

StepCreate ==
    \E p \in Invocations, outcome \in Outcomes :
        /\ inflight[p].pc = "create"
        /\ Step(p, notifyCreate(Local(p, outcome), data), "done")

NextConcurrent ==
    \/ StepBegin
    \/ StepSearch
    \/ StepUpdateSummary
    \/ StepUpdateDescription
    \/ StepReconcile
    \/ StepCreate

SpecConcurrent == InitConcurrent /\ [][NextConcurrent]_vars

(* The grouping alone: the alerts of a rule that differ in a label and an  *)
(* annotation, one of them there or not, empty or not; the alerts of       *)
(* another rule; an alert without alertname.                               *)
SevLabels ==
    {NameA} \cup {[n \in {"alertname", "sev"} |-> IF n = "alertname" THEN <<"a">> ELSE v] :
                    v \in {<<>>, <<"x">>}}

TeamAnnotations == {EmptyKV, [n \in {"team"} |-> <<>>]}

AlertKinds ==
    {Alert(st, l, an) : st \in {AlertFiring, AlertResolved}, l \in SevLabels,
                        an \in TeamAnnotations}
    \cup {Alert(st, NameB, EmptyKV) : st \in {AlertFiring, AlertResolved}}
    \cup {Alert(AlertFiring, [n \in {"sev"} |-> <<"x">>], EmptyKV)}

AlertLists == UNION {[1..n -> AlertKinds] : n \in 1..MaxAlerts}

InitSlices ==
    /\ conf \in {[BaseConf EXCEPT !.GroupIssueBy = g] : g \in {GroupByAlertRule, GroupByAlert}}
    /\ hashJiraLabel = FALSE
    /\ data \in {GroupData(alerts, {}) : alerts \in AlertLists}
    /\ jira = <<>>
    /\ now = 1
    /\ last = NoNotify
    /\ inflight = NoInflight

(* Notify builds its slice of the notification *)
Group ==
    /\ Idle
    /\ \E slice \in Slices(data) :
            last' = [NoNotify EXCEPT !.slice = slice,
                                    !.alerts = IF conf.GroupIssueBy = GroupByAlertRule
                                               THEN AlertsAfterToAlertRule(data)
                                               ELSE data.Alerts]
    /\ UNCHANGED <<conf, hashJiraLabel, data, jira, now, inflight>>

NextSlices == Group \/ Respond

SpecSlices == InitSlices /\ [][NextSlices]_vars

----------------------------------------------------------------------------
(* Properties.  They are stated of the runs of notify that the Notify      *)
(* being answered has made (last.runs); conf, data and now are as the      *)
(* Notify found them, and jira is as it left it.                           *)

MutatingOps == {"Create", "UpdateWithOptions", "DoTransition"}

(* the calls of op a run has issued, failed ones included *)
CallsTo(run, op) == SelectSeq(run.calls, LAMBDA c : c.op = op)

(* the mutating calls a run has issued *)
Mutating(run) == SelectSeq(run.calls, LAMBDA c : c.op \in MutatingOps)

(* the search of the run has returned without an error *)
SearchReturned(run) == run.calls # <<>> /\ run.exit # "findIssueToReuse"

(* the issue, as the search showed it, offers a transition of that name *)
Offered(issue, name) ==
    \E i \in 1..Len(Workflow) : Workflow[i].From = issue.Status /\ Workflow[i].Name = name

(* the names of the transitions the DoTransition calls of a run ask for *)
TransitionNames(run) ==
    {TransitionByID(c.value[1]).Name : c \in Range(CallsTo(run, "DoTransition"))}

(* the run has got past the updates of summary and description *)
Refreshed(run) == run.rendered /\ run.exit \notin {"updateSummary", "updateDescription"}

(* C1: a run of notify whose search returns no issue to reuse (none found, *)
(* or one resolved too long ago), for a notification without a firing      *)
(* alert, issues no Create, UpdateWithOptions or DoTransition call and     *)
(* never asks for a retry; with summary and description rendered it        *)
(* returns (false, nil).                                                   *)
C1_NothingToDo ==
    \A i \in 1..Len(last.runs) :
        (/\ SearchReturned(last.runs[i])
         /\ last.runs[i].issue = <<>>
         /\ last.runs[i].firing = 0)
        => /\ Mutating(last.runs[i]) = <<>>
           /\ ~last.runs[i].retry
           /\ last.runs[i].rendered => last.runs[i].err = ""

(* a run that finds an issue resolved too long ago and no firing alert,    *)
(* and returns with nothing to do                                          *)
C1_Witness ==
    \E i \in 1..Len(last.runs) :
        /\ last.runs[i].searched # <<>>
        /\ last.runs[i].issue = <<>>
        /\ last.runs[i].firing = 0
        /\ last.runs[i].exit = "nothingToDo"
        /\ last.err = ""

(* C2: a run of notify that reuses an issue of status category done whose  *)
(* resolution is not the configured won't-fix one, for a notification with *)
(* a firing alert, summary and description rendered, no client call        *)
(* failing and the issue offering a transition named as the reopen state,  *)
(* issues exactly one DoTransition call: on that issue, with the           *)
(* transition named as the configured reopen state.                        *)
C2_Reopens ==
    \A i \in 1..Len(last.runs) :
        (/\ last.runs[i].issue # <<>>
         /\ last.runs[i].rendered
         /\ last.runs[i].firing >= 1
         /\ last.runs[i].failed = <<>>
         /\ last.runs[i].issue[1].StatusCategory = CategoryDone
         /\ last.runs[i].issue[1].Resolution # conf.WontFixResolution
         /\ Offered(last.runs[i].issue[1], conf.ReopenState))
        => /\ Len(CallsTo(last.runs[i], "DoTransition")) = 1
           /\ CallsTo(last.runs[i], "DoTransition")[1].key = last.runs[i].issue[1].Key
           /\ TransitionNames(last.runs[i]) = {conf.ReopenState}

(* a resolved issue reopened while a won't-fix resolution is configured *)
C2_Witness ==
    \E i \in 1..Len(last.runs) :
        /\ last.runs[i].issue # <<>>
        /\ last.runs[i].firing >= 1
        /\ last.runs[i].issue[1].StatusCategory = CategoryDone
        /\ last.runs[i].issue[1].Resolution = "Done"
        /\ conf.WontFixResolution = "Won't Do"
        /\ last.runs[i].exit = "reopen"
        /\ last.runs[i].err = ""
        /\ jira[last.runs[i].issue[1].Key].Status = "Open"

(* the issue the run reuses is done with the configured won't-fix resolution *)
WontFixIssue(run) ==
    /\ run.issue # <<>>
    /\ run.issue[1].StatusCategory = CategoryDone
    /\ conf.WontFixResolution # ""
    /\ run.issue[1].Resolution = conf.WontFixResolution

(* C3, as the specification states it: a run of notify that reuses an      *)
(* issue of status category done with the configured won't-fix resolution  *)
(* issues no DoTransition call, whatever the notification and the          *)
(* configuration.                                                          *)
C3_WontFixNeverTransitioned ==
    \A i \in 1..Len(last.runs) :
        WontFixIssue(last.runs[i]) => CallsTo(last.runs[i], "DoTransition") = <<>>

(* C3, as the code has it: a run of notify that reuses an issue of status  *)
(* category done with the configured won't-fix resolution issues no        *)
(* DoTransition call if the notification has a firing alert or             *)
(* auto-resolve is not configured.                                         *)
C3_WontFixKept ==
    \A i \in 1..Len(last.runs) :
        (/\ WontFixIssue(last.runs[i])
         /\ last.runs[i].firing >= 1 \/ conf.AutoResolve = <<>>)
        => /\ CallsTo(last.runs[i], "DoTransition") = <<>>
           /\ last.runs[i].attempts = <<>>

(* a won't-fix issue met by a firing alert and left alone *)
C3_Witness ==
    \E i \in 1..Len(last.runs) :
        /\ WontFixIssue(last.runs[i])
        /\ last.runs[i].firing >= 1
        /\ last.runs[i].exit = "wontFix"
        /\ jira[last.runs[i].issue[1].Key].Resolution = conf.WontFixResolution

(* the issue the run reuses is not done and its summary is not the one     *)
(* rendered                                                                *)
OpenIssueSummaryDiffers(run) ==
    /\ run.issue # <<>>
    /\ run.rendered
    /\ run.issue[1].StatusCategory # CategoryDone
    /\ run.issue[1].Summary # run.summary

(* the run issues exactly one UpdateWithOptions call with a summary, the   *)
(* rendered one, for the issue it reuses                                   *)
OneSummaryUpdate(run) ==
    /\ Len(SelectSeq(run.calls,
                     LAMBDA c : c.op = "UpdateWithOptions" /\ c.field = "summary")) = 1
    /\ \E j \in 1..Len(run.calls) :
            run.calls[j] = [op |-> "UpdateWithOptions", key |-> run.issue[1].Key,
                            field |-> "summary", value |-> run.summary]

(* C4, as the specification states it: a run of notify that reuses an      *)
(* issue that is not done and whose summary differs from the rendered one  *)
(* issues exactly one UpdateWithOptions call with the new summary and no   *)
(* DoTransition call.                                                      *)
C4_SummaryUpdateOnly ==
    \A i \in 1..Len(last.runs) :
        OpenIssueSummaryDiffers(last.runs[i])
        => /\ OneSummaryUpdate(last.runs[i])
           /\ CallsTo(last.runs[i], "DoTransition") = <<>>

(* C4, as the code has it: such a run issues exactly one UpdateWithOptions *)
(* call with the new summary, and no DoTransition call if the notification *)
(* has a firing alert or auto-resolve is not configured.                   *)
C4_SummaryUpdate ==
    \A i \in 1..Len(last.runs) :
        OpenIssueSummaryDiffers(last.runs[i])
        => /\ OneSummaryUpdate(last.runs[i])
           /\ (last.runs[i].firing >= 1 \/ conf.AutoResolve = <<>>)
                => CallsTo(last.runs[i], "DoTransition") = <<>>

(* an open issue whose summary is brought up to date for a firing alert *)
C4_Witness ==
    \E i \in 1..Len(last.runs) :
        /\ OpenIssueSummaryDiffers(last.runs[i])
        /\ last.runs[i].firing >= 1
        /\ last.runs[i].exit = "unresolved"
        /\ jira[last.runs[i].issue[1].Key].Summary = last.runs[i].summary

(* the run reuses an issue for a notification without a firing alert *)
FoundNoFiring(run) == run.issue # <<>> /\ run.rendered /\ run.firing = 0

(* no Create call, no reopen, at most one transition asked for, and none   *)
(* without auto-resolve                                                    *)
NoReopenNoCreate(run) ==
    /\ CallsTo(run, "Create") = <<>>
    /\ \A j \in 1..Len(run.attempts) : run.attempts[j].by # "reopen"
    /\ Len(run.attempts) <= 1
    /\ Len(CallsTo(run, "DoTransition")) <= 1
    /\ conf.AutoResolve = <<>>
        => /\ run.attempts = <<>>
           /\ CallsTo(run, "GetTransitions") = <<>>
           /\ CallsTo(run, "DoTransition") = <<>>

(* every transition the run asks for is one to the auto-resolve state *)
ToAutoResolveState(run) ==
    /\ \A j \in 1..Len(run.attempts) :
            run.attempts[j] = [by |-> "resolveIssue", state |-> conf.AutoResolve[1].State]
    /\ TransitionNames(run) \subseteq {conf.AutoResolve[1].State}

(* C5, as the specification states it: a run of notify that reuses an      *)
(* issue for a notification without a firing alert attempts, with          *)
(* auto-resolve configured, exactly one transition, to the auto-resolve    *)
(* state and never a reopen; without auto-resolve it issues no transition  *)
(* call; it never creates an issue.                                        *)
C5_ResolvesOnce ==
    \A i \in 1..Len(last.runs) :
        FoundNoFiring(last.runs[i])
        => /\ NoReopenNoCreate(last.runs[i])
           /\ conf.AutoResolve # <<>>
                => /\ Len(last.runs[i].attempts) = 1
                   /\ ToAutoResolveState(last.runs[i])

(* C5, as the code has it: with auto-resolve configured the run attempts   *)
(* exactly one transition once the updates of summary and description have *)
(* not failed, and none if one of them has failed.                         *)
C5_ResolvesOnceRefreshed ==
    \A i \in 1..Len(last.runs) :
        FoundNoFiring(last.runs[i])
        => /\ NoReopenNoCreate(last.runs[i])
           /\ conf.AutoResolve # <<>>
                => /\ ToAutoResolveState(last.runs[i])
                   /\ Len(last.runs[i].attempts)
                        = IF Refreshed(last.runs[i]) THEN 1 ELSE 0

(* an open issue resolved by the run for a notification without a firing   *)
(* alert                                                                   *)
C5_Witness ==
    \E i \in 1..Len(last.runs) :
        /\ FoundNoFiring(last.runs[i])
        /\ conf.AutoResolve # <<>>
        /\ last.runs[i].exit = "resolveIssue"
        /\ last.runs[i].err = ""
        /\ Len(CallsTo(last.runs[i], "DoTransition")) = 1
        /\ jira[last.runs[i].issue[1].Key].Status = "Resolved"

(* C6: for a run of notify whose search returns an issue resolved at time  *)
(* T, with reopen duration D: the issue is the one to reuse if now < T + D *)
(* and none is if now > T + D and D # 0; if D = 0, or the issue has no     *)
(* resolution time, it is the one to reuse whatever the time.              *)
C6_Staleness ==
    \A i \in 1..Len(last.runs) :
        (SearchReturned(last.runs[i]) /\ last.runs[i].searched # <<>>)
        => /\ (/\ last.runs[i].searched[1].Resolutiondate # 0
               /\ now < last.runs[i].searched[1].Resolutiondate + conf.ReopenDuration)
                => last.runs[i].issue = last.runs[i].searched
           /\ (/\ last.runs[i].searched[1].Resolutiondate # 0
               /\ now > last.runs[i].searched[1].Resolutiondate + conf.ReopenDuration
               /\ conf.ReopenDuration # 0)
                => last.runs[i].issue = <<>>
           /\ (conf.ReopenDuration = 0 \/ last.runs[i].searched[1].Resolutiondate = 0)
                => last.runs[i].issue = last.runs[i].searched

(* an issue resolved more than a reopen duration of 1 ago is not reused,   *)
(* where one time unit earlier it would have been kept by a duration of 2  *)
C6_Witness ==
    \E i \in 1..Len(last.runs) :
        /\ last.runs[i].searched # <<>>
        /\ last.runs[i].searched[1].Resolutiondate # 0
        /\ conf.ReopenDuration = 1
        /\ now = last.runs[i].searched[1].Resolutiondate + 2
        /\ last.runs[i].issue = <<>>

(* an issue resolved in the past is reused before its reopen duration is up *)
C6_WitnessReused ==
    \E i \in 1..Len(last.runs) :
        /\ last.runs[i].searched # <<>>
        /\ last.runs[i].searched[1].Resolutiondate # 0
        /\ last.runs[i].searched[1].Resolutiondate < now
        /\ now < last.runs[i].searched[1].Resolutiondate + conf.ReopenDuration
        /\ last.runs[i].issue = last.runs[i].searched

(* an issue resolved in the past is reused with a reopen duration of 0 *)
C6_WitnessZero ==
    \E i \in 1..Len(last.runs) :
        /\ last.runs[i].searched # <<>>
        /\ last.runs[i].searched[1].Resolutiondate # 0
        /\ last.runs[i].searched[1].Resolutiondate < now
        /\ conf.ReopenDuration = 0
        /\ last.runs[i].issue = last.runs[i].searched

(* the last run of the Notify has created an issue *)
Created == last.runs # <<>> /\ last.runs[Len(last.runs)].exit = "create" /\ last.err = ""

(* the key of the issue the last run has created *)
CreatedKey == CallsTo(last.runs[Len(last.runs)], "Create")[1].key

(* what a search for the project and the identifier label of the last run  *)
(* returns now                                                             *)
SearchAgain(tie) ==
    JiraSearch(jira, last.runs[Len(last.runs)].project, last.runs[Len(last.runs)].idLabel,
               SearchFields, MaxResults, tie)

(* C7: once a run of notify has created an issue, the issue carries the    *)
(* identifier label the run has searched for, and a search for the same    *)
(* project and label right after returns that issue first, unresolved,     *)
(* however the server orders issues of equal resolution date, and whether  *)
(* or not common labels, group labels, a label template or hashing is      *)
(* configured.  (An unresolved issue sorts before resolved ones in the     *)
(* server's order by resolutiondate desc.)                                 *)
C7_CreateThenSearch ==
    Created
    => /\ CreatedKey \in 1..Len(jira)
       /\ last.runs[Len(last.runs)].idLabel \in Range(jira[CreatedKey].Labels)
       /\ jira[CreatedKey].Project = last.runs[Len(last.runs)].project
       /\ \A tie \in Ties :
            /\ SearchAgain(tie) # <<>>
            /\ SearchAgain(tie)[1].Key = CreatedKey
            /\ SearchAgain(tie)[1].Resolutiondate = 0

(* a second issue created beside one of the same label resolved too long   *)
(* ago                                                                     *)
C7_Witness ==
    /\ Created
    /\ CreatedKey = 2
    /\ last.runs[Len(last.runs)].searched # <<>>
    /\ last.runs[Len(last.runs)].idLabel \in Range(jira[1].Labels)

(* an issue created with common labels, group labels and a hashed label *)
C7_WitnessLabels ==
    /\ Created
    /\ conf.AddCommonLabels
    /\ conf.AddGroupLabels
    /\ hashJiraLabel
    /\ Len(jira[CreatedKey].Labels) > 2

(* no client call of the Notify has failed *)
NoCallFailed == \A i \in 1..Len(last.runs) : last.runs[i].failed = <<>>

(* C8, as the specification states it: a Notify called again after one     *)
(* that has returned without error, for the same notification, with the    *)
(* same configuration and clock and the issues as the first has left them, *)
(* no client call failing, issues no Create, UpdateWithOptions or          *)
(* DoTransition call and returns (false, nil).                             *)
C8_Idempotent ==
    (last.redelivery /\ NoCallFailed)
    => /\ \A i \in 1..Len(last.runs) : Mutating(last.runs[i]) = <<>>
       /\ ~last.retry
       /\ last.err = ""

(* a client call of the Notify has failed with response resp *)
FailedWith(resp) == \E i \in 1..Len(last.runs) : last.runs[i].failed = <<resp>>

(* C9: if a client call of a Notify fails (Search, GetTransitions, Create, *)
(* UpdateWithOptions or DoTransition), the Notify returns an error, and    *)
(* retry only if the call's response is there with status 500 or 503; for  *)
(* any other status, and for a failure without a response, it returns      *)
(* retry false.                                                            *)
C9_RetryOnly500Or503 ==
    /\ last.retry => FailedWith(Response(500)) \/ FailedWith(Response(503))
    /\ \A resp \in Responses :
        FailedWith(resp)
        => /\ last.err # ""
           /\ (resp.nil \/ resp.StatusCode \notin {500, 503}) => ~last.retry

(* a DoTransition call fails without a response and Notify does not ask    *)
(* for a retry                                                             *)
C9_Witness ==
    /\ FailedWith(NoResponse)
    /\ ~last.retry
    /\ last.err = "JIRA request failed"
    /\ \E i \in 1..Len(last.runs) : CallsTo(last.runs[i], "DoTransition") # <<>>

(* a Create call fails with status 502 and Notify does not ask for a retry  *)
C9_WitnessCreate ==
    /\ FailedWith(Response(502))
    /\ ~last.retry
    /\ \E i \in 1..Len(last.runs) : CallsTo(last.runs[i], "Create") # <<>>

(* C10, as the specification states it: if a client call of a Notify fails *)
(* with a 5xx status or without a response, the Notify returns retry true. *)
C10_RetryOnAny5xxOrTransport ==
    \A resp \in Responses :
        (FailedWith(resp) /\ (resp.nil \/ resp.StatusCode \div 100 = 5)) => last.retry

(* C10, as the code has it: if a client call of a Notify fails with status *)
(* 500 or 503, the Notify returns retry true.                              *)
C10_RetryOn500And503 ==
    \A resp \in Responses :
        (FailedWith(resp) /\ ~resp.nil /\ resp.StatusCode \in {500, 503}) => last.retry

(* a Search fails with status 500 and Notify asks for a retry *)
C10_Witness ==
    /\ FailedWith(Response(500))
    /\ last.retry
    /\ last.err = "JIRA request returned status"
    /\ \E i \in 1..Len(last.runs) : last.runs[i].exit = "findIssueToReuse"

(* the calls of a run that have not failed *)
Succeeded(run) ==
    IF run.failed = <<>> THEN run.calls ELSE SubSeq(run.calls, 1, Len(run.calls) - 1)

(* run i of the Notify is the run of notify for the i-th notification of   *)
(* the slice                                                               *)
RunOfSlice(i) ==
    /\ last.runs[i].firing = Len(FiringOf(last.slice[i].Alerts))
    /\ last.runs[i].exit \notin {"project", "idLabel"}
        => last.runs[i].idLabel = toIssueIdentifierLabel(last.slice[i], hashJiraLabel).val

(* the issues the runs of the Notify have created are on the server, with  *)
(* the label of their run                                                  *)
CreatedRemain ==
    /\ Len(jira) = Len(last.start)
                   + Len(SelectSeq(CallsOf([i \in 1..Len(last.runs) |->
                                               [calls |-> Succeeded(last.runs[i])]]),
                                   LAMBDA c : c.op = "Create"))
    /\ \A i \in 1..Len(last.runs) :
        \A j \in 1..Len(Succeeded(last.runs[i])) :
            Succeeded(last.runs[i])[j].op = "Create"
            => /\ Succeeded(last.runs[i])[j].key \in 1..Len(jira)
               /\ last.runs[i].idLabel \in Range(jira[Succeeded(last.runs[i])[j].key].Labels)

(* C11: Notify runs notify for the notifications of its slice in order,    *)
(* one after the other, and stops at the first run that returns an error:  *)
(* it returns that run's (retry, error), there is no run, hence no client  *)
(* call, for a later notification, and what the earlier runs have created  *)
(* stays on the server; if no run returns an error there is a run for each *)
(* notification and Notify returns (false, nil).                           *)
C11_StopsAtFirstError ==
    ~Idle
    => /\ Len(last.runs) <= Len(last.slice)
       /\ \A i \in 1..Len(last.runs) : RunOfSlice(i)
       /\ \A i \in 1..(Len(last.runs) - 1) : last.runs[i].err = ""
       /\ CreatedRemain
       /\ IF last.err = ""
          THEN /\ ~last.retry
               /\ Len(last.runs) = Len(last.slice)
               /\ \A i \in 1..Len(last.runs) : last.runs[i].err = ""
          ELSE /\ last.runs # <<>>
               /\ last.runs[Len(last.runs)].err = last.err
               /\ last.runs[Len(last.runs)].retry = last.retry

(* the run for the first of two notifications fails with retry after a     *)
(* call, and there is no run for the second                                *)
C11_Witness ==
    /\ Len(last.slice) = 2
    /\ Len(last.runs) = 1
    /\ last.runs[1].calls # <<>>
    /\ last.retry
    /\ last.err # ""

(* the run for the second of two notifications fails, and the issue the    *)
(* first has created stays                                                 *)
C11_WitnessKept ==
    /\ Len(last.slice) = 2
    /\ Len(last.runs) = 2
    /\ last.err # ""
    /\ last.runs[1].exit = "create"
    /\ Len(jira) = Len(last.start) + 1

(* the run has called doTransition and the list of transitions has come    *)
(* back                                                                    *)
TransitionsListed(run) ==
    /\ run.attempts # <<>>
    /\ run.issue # <<>>
    /\ CallsTo(run, "GetTransitions") # <<>>
    /\ run.failed = <<>> \/ run.calls[Len(run.calls)].op # "GetTransitions"

(* the ID of the first transition of that name the issue offers *)
FirstOfferedID(issue, name) ==
    Workflow[CHOOSE i \in 1..Len(Workflow) :
                /\ Workflow[i].From = issue.Status /\ Workflow[i].Name = name
                /\ \A j \in 1..(i - 1) :
                     ~(Workflow[j].From = issue.Status /\ Workflow[j].Name = name)].ID

(* C12: doTransition, called by reopen or by resolveIssue, the transitions *)
(* of the issue listed: if none is named as the state asked for, it        *)
(* returns an error and retry false, issues no DoTransition call and the   *)
(* issue keeps its status; if one is, it issues exactly one DoTransition   *)
(* call, for the issue, with the ID of the first transition of that name.  *)
C12_TransitionByName ==
    \A i \in 1..Len(last.runs) :
        TransitionsListed(last.runs[i])
        => IF Offered(last.runs[i].issue[1], last.runs[i].attempts[1].state)
           THEN CallsTo(last.runs[i], "DoTransition")
                = << [op    |-> "DoTransition",
                      key   |-> last.runs[i].issue[1].Key,
                      field |-> "transition",
                      value |-> <<FirstOfferedID(last.runs[i].issue[1],
                                                 last.runs[i].attempts[1].state)>>] >>
           ELSE /\ last.runs[i].err # ""
                /\ ~last.runs[i].retry
                /\ CallsTo(last.runs[i], "DoTransition") = <<>>
                /\ jira[last.runs[i].issue[1].Key].Status = last.runs[i].issue[1].Status
                /\ jira[last.runs[i].issue[1].Key].Resolution
                     = last.runs[i].issue[1].Resolution

(* a reopen for which the issue offers no transition of the name *)
C12_Witness ==
    \E i \in 1..Len(last.runs) :
        /\ TransitionsListed(last.runs[i])
        /\ last.runs[i].attempts[1].by = "reopen"
        /\ ~Offered(last.runs[i].issue[1], conf.ReopenState)
        /\ last.runs[i].err = "JIRA state does not exist or no transition possible"
        /\ ~last.retry

(* a resolve for which the issue, resolved already, offers no transition   *)
(* of the name                                                             *)
C12_WitnessResolve ==
    \E i \in 1..Len(last.runs) :
        /\ TransitionsListed(last.runs[i])
        /\ last.runs[i].attempts[1].by = "resolveIssue"
        /\ last.runs[i].issue[1].Status = "Resolved"
        /\ last.runs[i].err = "JIRA state does not exist or no transition possible"

(* Grouping.  The alerts of the notification as Alertmanager has sent them *)
(* are data.Alerts; last.slice is what toAlertRule or toAlert has made of  *)
(* them and last.alerts what they are once it has returned.                *)

ByRule == conf.GroupIssueBy = GroupByAlertRule /\ last.slice # <<>>

ByAlert == conf.GroupIssueBy = GroupByAlert /\ last.slice # <<>>

PairNames == {"alertname", "sev", "team"}

PairValues == {<<>>, <<"a">>, <<"b">>, <<"x">>, <<"t">>}

HasPair(kv, k, v) == k \in DOMAIN kv /\ kv[k] = v

(* the alerts sent of the rule of the i-th notification of the slice *)
Partition(i) ==
    SelectSeq(data.Alerts,
              LAMBDA a : HasPair(a.Labels, "alertname",
                                 last.slice[i].Alerts[1].Labels["alertname"]))

(* every alert of the list carries the pair *)
AllCarry(kvs, k, v) == \A j \in 1..Len(kvs) : HasPair(kvs[j], k, v)

(* the first alert of the list carries the pair and every other one has    *)
(* the value for the name, an alert that lacks the name having the empty   *)
(* value                                                                   *)
FirstCarriesRestAgree(kvs, k, v) ==
    /\ HasPair(kvs[1], k, v)
    /\ \A j \in 2..Len(kvs) : HasPair(kvs[j], k, v) \/ (v = <<>> /\ k \notin DOMAIN kvs[j])

LabelsOf(alerts) == [j \in 1..Len(alerts) |-> alerts[j].Labels]

AnnotationsOf(alerts) == [j \in 1..Len(alerts) |-> alerts[j].Annotations]

(* C13, as the specification states it: a pair is among the common labels  *)
(* (annotations) of a notification toAlertRule returns if and only if      *)
(* every alert of the rule carries the name with that value.               *)
C13_CommonIsIntersection ==
    ByRule
    => \A i \in 1..Len(last.slice) : \A k \in PairNames : \A v \in PairValues :
        /\ HasPair(last.slice[i].CommonLabels, k, v)
            <=> AllCarry(LabelsOf(Partition(i)), k, v)
        /\ HasPair(last.slice[i].CommonAnnotations, k, v)
            <=> AllCarry(AnnotationsOf(Partition(i)), k, v)

(* C13, as the code has it: a pair is among the common labels              *)
(* (annotations) if and only if the first alert of the rule carries it and *)
(* every other alert of the rule has that value for the name, where an     *)
(* alert that lacks the name counts as having the empty value for it.      *)
C13_CommonOfRule ==
    ByRule
    => \A i \in 1..Len(last.slice) : \A k \in PairNames : \A v \in PairValues :
        /\ HasPair(last.slice[i].CommonLabels, k, v)
            <=> FirstCarriesRestAgree(LabelsOf(Partition(i)), k, v)
        /\ HasPair(last.slice[i].CommonAnnotations, k, v)
            <=> FirstCarriesRestAgree(AnnotationsOf(Partition(i)), k, v)

(* three alerts of a rule: sev is dropped because the values differ, and   *)
(* the annotation all three carry is kept                                  *)
C13_Witness ==
    /\ ByRule
    /\ \E i \in 1..Len(last.slice) :
        /\ Len(Partition(i)) = 3
        /\ HasPair(Partition(i)[1].Labels, "sev", <<"x">>)
        /\ HasPair(Partition(i)[3].Labels, "sev", <<>>)
        /\ "sev" \notin DOMAIN last.slice[i].CommonLabels
        /\ HasPair(last.slice[i].CommonLabels, "alertname", <<"a">>)
        /\ HasPair(last.slice[i].CommonAnnotations, "team", <<>>)
        /\ AllCarry(AnnotationsOf(Partition(i)), "team", <<>>)

(* the first alert carries sev with the empty value, the second lacks sev, *)
(* and sev is common                                                       *)
C13_WitnessLacking ==
    /\ ByRule
    /\ \E i \in 1..Len(last.slice) :
        /\ Len(Partition(i)) = 2
        /\ HasPair(Partition(i)[1].Labels, "sev", <<>>)
        /\ "sev" \notin DOMAIN Partition(i)[2].Labels
        /\ HasPair(last.slice[i].CommonLabels, "sev", <<>>)

(* the notification has alerts and is firing exactly if one of them is *)
StatusOfAlerts(n) ==
    /\ n.Alerts # <<>>
    /\ n.Status \in {AlertFiring, AlertResolved}
    /\ n.Status = AlertFiring
        <=> \E j \in 1..Len(n.Alerts) : n.Alerts[j].Status = AlertFiring

(* the values of alertname among the alerts sent *)
AlertNames ==
    {data.Alerts[j].Labels["alertname"] :
        j \in {x \in 1..Len(data.Alerts) : "alertname" \in DOMAIN data.Alerts[x].Labels}}

(* C14: every notification toAlertRule or toAlert returns has alerts, and  *)
(* has status firing if and only if one of its alerts is firing;           *)
(* toAlertRule returns exactly one notification for each value of          *)
(* alertname among the alerts, holding the alerts of that value, and       *)
(* toAlert exactly one for each alert, holding that alert.                 *)
C14_GroupedNotifications ==
    /\ (~Idle /\ conf.GroupIssueBy = GroupByAlertRule)
        => /\ \A i \in 1..Len(last.slice) : StatusOfAlerts(last.slice[i])
           /\ Len(last.slice) = Cardinality(AlertNames)
           /\ {last.slice[i].Alerts[1].Labels["alertname"] : i \in 1..Len(last.slice)}
                = AlertNames
           /\ \A i \in 1..Len(last.slice) :
                /\ Len(last.slice[i].Alerts) = Len(Partition(i))
                /\ \A j \in 1..Len(last.slice[i].Alerts) :
                    /\ last.slice[i].Alerts[j].Status = Partition(i)[j].Status
                    /\ HasPair(last.slice[i].Alerts[j].Labels, "alertname",
                               last.slice[i].Alerts[1].Labels["alertname"])
    /\ (~Idle /\ conf.GroupIssueBy = GroupByAlert)
        => /\ \A i \in 1..Len(last.slice) : StatusOfAlerts(last.slice[i])
           /\ Len(last.slice) = Len(data.Alerts)
           /\ \A i \in 1..Len(last.slice) : last.slice[i].Alerts = <<data.Alerts[i]>>

(* two rules: one with a resolved alert first and a firing one after it,   *)
(* which is firing, and one with a resolved alert, which is resolved       *)
C14_Witness ==
    /\ ByRule
    /\ Len(data.Alerts) = 3
    /\ Len(last.slice) = 2
    /\ \E i \in 1..2 :
        /\ Len(last.slice[i].Alerts) = 2
        /\ last.slice[i].Alerts[1].Status = AlertResolved
        /\ last.slice[i].Alerts[2].Status = AlertFiring
        /\ last.slice[i].Status = AlertFiring
    /\ \E i \in 1..2 : last.slice[i].Status = AlertResolved

(* by alert: three notifications for three alerts, one of them without     *)
(* alertname                                                               *)
C14_WitnessByAlert ==
    /\ ByAlert
    /\ Len(last.slice) = 3
    /\ \E i \in 1..3 : "alertname" \notin DOMAIN last.slice[i].Alerts[1].Labels

(* the label has no space in it *)
NoSpace(label) == \A j \in 1..Len(label) : ~IsSpace(label[j])

(* C15, as the specification states it: no label of an issue that notify   *)
(* has created (the identifier label, a pair of the common labels with     *)
(* AddCommonLabels, a pair of the group labels with AddGroupLabels) has a   *)
(* space in it, whatever the names and values.                             *)
C15_NoSpaceInLabels ==
    Created => \A j \in 1..Len(jira[CreatedKey].Labels) : NoSpace(jira[CreatedKey].Labels[j])

(* the identifier label searched for and attached has no space in it *)
C15_NoSpaceInIdLabel ==
    \A i \in 1..Len(last.runs) : NoSpace(last.runs[i].idLabel)

(* the issues as a delivery of the notification in which no client call    *)
(* fails leaves them, made when the first delivery was made, looping over  *)
(* slice                                                                   *)
FailureFree(slice) ==
    NotifyLoop(slice, 1, last.origin, 0, NoFailure("asc"), hashJiraLabel, <<>>).jira

(* the same issues, whatever their keys *)
SameIssues(a, b) == Len(a) = Len(b) /\ Range(a) = Range(b)

(* no two issues of a project share a label *)
NoIssueTwice ==
    \A j, k \in 1..Len(jira) :
        (j # k /\ jira[j].Project = jira[k].Project)
        => Range(jira[j].Labels) \cap Range(jira[k].Labels) = {}

(* C16: a notification of several grouped notifications is delivered       *)
(* again, as a whole, after each Notify that has failed with retry; at no  *)
(* point is an issue of a grouped notification created a second time, and  *)
(* once a Notify succeeds after a failure that came when notifications of  *)
(* the slice had been dealt with, the server holds the issues a single     *)
(* delivery without a failing call would have left.                        *)
C16_RedeliverySafe ==
    /\ NoIssueTwice
    /\ (last.interrupted /\ last.err = "")
        => \E slice \in Slices(data) : SameIssues(jira, FailureFree(slice))

(* the first delivery creates the issue of one rule and fails with retry   *)
(* for the other; the delivery after it finds the first issue, creates the *)
(* second and succeeds                                                     *)
C16_Witness ==
    /\ last.interrupted
    /\ last.err = ""
    /\ last.origin = <<>>
    /\ Len(last.start) = 1
    /\ Len(jira) = 2
    /\ Len(last.runs) = 2
    /\ last.runs[1].issue # <<>>
    /\ last.runs[2].exit = "create"

(* the projects and the labels of the issues *)
Projects == {jira[k].Project : k \in 1..Len(jira)}
IssueLabels == UNION {Range(jira[k].Labels) : k \in 1..Len(jira)}

(* the issue was resolved longer ago than a ReopenDuration that is not 0 *)
TooOld(issue) ==
    /\ issue.Resolutiondate # 0
    /\ conf.ReopenDuration # 0
    /\ issue.Resolutiondate + conf.ReopenDuration < now

(* C17, as the specification states it: the server empty at first and the  *)
(* issues changed by the receiver alone, the query for a project and a     *)
(* label never returns more than one issue.                                *)
C17_OneMatch ==
    \A project \in Projects, label \in IssueLabels :
        Len(JiraSearch(jira, project, label, SearchFields, MaxResults, "asc")) <= 1

(* C17: the server empty at first and the issues changed by the receiver   *)
(* alone, of the issues of a project that carry a label at most one is     *)
(* unresolved or resolved within the ReopenDuration, and none but the one  *)
(* when the ReopenDuration is 0; every other one was resolved longer ago   *)
(* than the ReopenDuration.                                                *)
C17_OneMatchNotTooOld ==
    \A j, k \in 1..Len(jira) :
        (/\ j # k
         /\ jira[j].Project = jira[k].Project
         /\ Range(jira[j].Labels) \cap Range(jira[k].Labels) # {})
        => TooOld(jira[j]) \/ TooOld(jira[k])

(* Notify has found an issue resolved too long ago and created another     *)
(* with the label of the first                                             *)
C17_Witness ==
    /\ Created
    /\ Len(jira) = 2
    /\ jira[1].Labels = jira[2].Labels
    /\ TooOld(jira[1])
    /\ ~TooOld(jira[2])

(* an issue resolved within the ReopenDuration is reopened, no other made  *)
C17_WitnessReopened ==
    /\ conf.ReopenDuration # 0
    /\ Len(jira) = 1
    /\ last.runs # <<>>
    /\ last.runs[1].exit = "reopen"
    /\ last.err = ""

(* the summary or the description template of the receiver fails to render *)
(* for the i-th notification of the slice, project and identifier label do *)
(* not                                                                     *)
SummaryOrDescriptionFails(i) ==
    /\ ~Execute(conf.Project, last.slice[i]).err
    /\ ~toIssueIdentifierLabel(last.slice[i], hashJiraLabel).err
    /\ Execute(conf.Summary, last.slice[i]).err
        \/ Execute(conf.Description, last.slice[i]).err

(* C18, as the specification states it: when the summary or the            *)
(* description template fails to render, the run of notify has issued no   *)
(* client call, the search neither, and Notify returns an error without    *)
(* retry.                                                                  *)
C18_RenderBeforeSearch ==
    \A i \in 1..Len(last.runs) :
        SummaryOrDescriptionFails(i)
        => /\ last.runs[i].calls = <<>>
           /\ last.err # ""
           /\ ~last.retry

(* C18: notify renders the project, derives the identifier label, searches *)
(* and only then renders summary and description.  When the project or the *)
(* identifier label fails to render it has issued no client call; when the *)
(* summary or the description fails to render it has issued the search and *)
(* no other call; Notify returns an error, without retry unless it is the  *)
(* search that has failed.                                                 *)
C18_SearchBeforeRender ==
    \A i \in 1..Len(last.runs) :
        /\ (Execute(conf.Project, last.slice[i]).err
            \/ toIssueIdentifierLabel(last.slice[i], hashJiraLabel).err)
           => /\ last.runs[i].calls = <<>>
              /\ last.err # ""
              /\ ~last.retry
        /\ SummaryOrDescriptionFails(i)
           => /\ Len(last.runs[i].calls) = 1
              /\ last.runs[i].calls[1].op = "Search"
              /\ last.err # ""
              /\ last.runs[i].failed = <<>>
                 => /\ ~last.retry
                    /\ last.runs[i].exit \in {"summary", "description"}

(* the summary fails to render: the search has been made and has found     *)
(* nothing, Notify returns the error of the template                       *)
C18_Witness ==
    /\ last.runs # <<>>
    /\ Execute(conf.Summary, last.slice[1]).err
    /\ last.runs[1].exit = "summary"
    /\ Len(last.runs[1].calls) = 1
    /\ last.runs[1].failed = <<>>
    /\ last.err = "generate summary from template"

(* the description fails to render, likewise *)
C18_WitnessDescription ==
    /\ last.runs # <<>>
    /\ Execute(conf.Description, last.slice[1]).err
    /\ last.runs[1].exit = "description"
    /\ Len(last.runs[1].calls) = 1
    /\ last.err = "render issue description"

(* the project fails to render: no call *)
C18_WitnessProject ==
    /\ last.runs # <<>>
    /\ last.runs[1].exit = "project"
    /\ last.runs[1].calls = <<>>

(* the run has issued an UpdateWithOptions call for the description *)
DescriptionUpdated(run) ==
    \E j \in 1..Len(run.calls) :
        run.calls[j].op = "UpdateWithOptions" /\ run.calls[j].field = "description"

(* C19, as the specification states it: a run of notify that has found an  *)
(* issue and got as far as the description issues an UpdateWithOptions     *)
(* call for the description if and only if the description the server      *)
(* holds for the issue differs from the one rendered.                      *)
C19_DescriptionUpdateIffDiffers ==
    \A i \in 1..Len(last.runs) :
        (/\ last.runs[i].issue # <<>>
         /\ last.runs[i].rendered
         /\ last.runs[i].exit # "updateSummary")
        => (DescriptionUpdated(last.runs[i])
            <=> last.start[last.runs[i].issue[1].Key].Description # last.runs[i].description)

(* C20, as the specification states it: once toAlertRule has returned,     *)
(* every alert of the notification it was given has the labels and the     *)
(* annotations it was sent with, and the alerts of every notification      *)
(* returned have the labels and the annotations of the alerts sent of its  *)
(* rule.                                                                   *)
C20_InputUnmodified ==
    ByRule
    => /\ last.alerts = data.Alerts
       /\ \A i \in 1..Len(last.slice) :
            /\ LabelsOf(last.slice[i].Alerts) = LabelsOf(Partition(i))
            /\ AnnotationsOf(last.slice[i].Alerts) = AnnotationsOf(Partition(i))

(* toAlert leaves the alerts it was given as they were sent *)
C20_ByAlertUnmodified ==
    ByAlert
    => /\ last.alerts = data.Alerts
       /\ \A i \in 1..Len(last.slice) : last.slice[i].Alerts = <<data.Alerts[i]>>

(* Notify calls side by side *)

(* the issues that carry the identifier label of run p *)
IssuesOf(p) ==
    {k \in 1..Len(jira) : inflight[p].st.idLabel \in Range(jira[k].Labels)}

(* run p has issued its search *)
HasSearched(p) == inflight[p].pc \notin {"idle", "search"}

(* C21, as the specification states it: of two Notify calls for the same   *)
(* firing notification that run side by side, interleaved at their client  *)
(* calls, the server having no issue with the identifier label at first,   *)
(* at most one issue with the identifier label is created.                 *)
C21_AtMostOneCreated ==
    \A p \in Invocations : HasSearched(p) => Cardinality(IssuesOf(p)) <= 1

(* two issues with the identifier label are there only if neither run has  *)
(* found an issue, each having searched before the other has created       *)
C21_TwoOnlyWhenNoneFound ==
    (\E p \in Invocations : HasSearched(p) /\ Cardinality(IssuesOf(p)) > 1)
    => \A p \in Invocations : HasSearched(p) /\ inflight[p].st.issue = <<>>

(* a run that searches after the other has created finds the issue and     *)
(* creates none                                                            *)
C21_FoundNoSecond ==
    /\ inflight[1].pc = "done"
    /\ inflight[2].pc = "done"
    /\ inflight[1].st.err = ""
    /\ inflight[2].st.err = ""
    /\ inflight[2].st.issue # <<>>
    /\ Len(jira) = 1

(* in this specification the rest of notify, an issue found, issues no call *)
C21_ReconcileNoCall ==
    \A p \in Invocations :
        (inflight[p].pc = "done" /\ inflight[p].st.issue # <<>>)
        => \A j \in 1..Len(inflight[p].st.calls) :
                inflight[p].st.calls[j].op \in {"Search", "UpdateWithOptions"}

====
